---- MODULE Spec2Model ----
(***************************************************************************)
(* Model of falco/propcustom.py: the four field propagators               *)
(* propcustom_2FT, propcustom_PTP, propcustom_mft_FtoP and                 *)
(* propcustom_mft_PtoF.  A caller picks an operator and its arguments,     *)
(* the operator runs to its return or to the exception it raises, and the  *)
(* caller takes the outcome.                                               *)
(*                                                                         *)
(* Complex samples are computed in the prime field GF(P).  P - 1 is a      *)
(* multiple of every denominator d of a phase exp(2 pi i n / d) the model  *)
(* forms, so GF(P) holds the roots of unity the code uses and the map      *)
(* exp(2 pi i / (P - 1)) |-> G is a ring homomorphism from the cyclotomic  *)
(* integers: sums, products, the DFT and its inverse are computed as the   *)
(* code computes them.  Floating-point rounding is not modelled.           *)
(***************************************************************************)
EXTENDS Integers, Sequences, FiniteSets, TLC

VARIABLES
    phase,      \* "idle": the caller is about to call; "done": a call has ended
    op,         \* the operator called: "2FT", "2FT_2FT", "PTP", "mft_FtoP", "mft_PtoF"
    args,       \* the arguments of the call
    outcome,    \* "returned", or the exception the call raised
    E_out,      \* the array returned
    scaling,    \* the constant factor in front of a matrix-DFT result
    grids,      \* the focal-plane axes and matrix shapes a matrix-DFT call built
    warnings,   \* the log.warning records the call emitted
    events      \* the statements the call executed, in order

vars == <<phase, op, args, outcome, E_out, scaling, grids, warnings, events>>

(***************************************************************************)
(* Bounds of the model.                                                    *)
(***************************************************************************)
MaxN == 4        \* largest array side
MaxWidth == 3    \* largest full_width
MaxLambda == 2   \* largest wavelength
MaxDz == 2       \* largest |dz|
MaxPitch == 2    \* largest focal-plane pitch dxi, deta
MaxFocal == 3    \* largest focal-plane extent Nxi, Neta asked of mft_PtoF

(***************************************************************************)
(* Complex arithmetic.                                                     *)
(***************************************************************************)
\* P - 1 = 8640 = 2^6 * 3^3 * 5 is a multiple of every array side N, of
\* 2 * full_width^2 (the kernel's phase) and of 4 * lambda_ * fl (the matrix
\* DFT's phase) that the caller below can pass.
P == 8641
G == 17          \* a generator of the units of GF(P): exp(2 pi i / (P - 1))

Cadd(a, b) == (a + b) % P
Cmul(a, b) == (a * b) % P

RECURSIVE Cpow(_, _)
Cpow(a, n) ==
    IF n = 0 THEN 1
    ELSE IF n % 2 = 0 THEN Cpow(Cmul(a, a), n \div 2)
    ELSE Cmul(a, Cpow(Cmul(a, a), n \div 2))

Cinv(a) == Cpow(a, P - 2)
Cdiv(a, b) == Cmul(a, Cinv(b))

\* 1j
J == Cpow(G, (P - 1) \div 4)

\* exp(2 pi i num / den), for den a divisor of P - 1
Cis(num, den) == Cpow(G, (num * ((P - 1) \div den)) % (P - 1))

Abs(x) == IF x < 0 THEN -x ELSE x

(***************************************************************************)
(* Arrays: a shape (rows, columns) and the samples, as numpy's ndarray.    *)
(***************************************************************************)
\* the R x C array of the samples f[i, j], held as tuples
Mk(R, C, f) ==
    [shape |-> <<R, C>>,
     data |-> [i \in 1..R |-> [j \in 1..C |-> f[i, j]] \o <<>>] \o <<>>]

Rows(A) == A.shape[1]
Cols(A) == A.shape[2]
At(A, i, j) == A.data[i][j]

NoArray == [shape |-> <<0, 0>>, data |-> <<>>]

\* a * A for a scalar a
Scale(a, A) ==
    Mk(Rows(A), Cols(A), [i \in 1..Rows(A), j \in 1..Cols(A) |-> Cmul(a, At(A, i, j))])

\* A * B elementwise, for arrays of one shape
Hadamard(A, B) ==
    Mk(Rows(A), Cols(A),
       [i \in 1..Rows(A), j \in 1..Cols(A) |-> Cmul(At(A, i, j), At(B, i, j))])

\* A[::-1, ::-1]
Flip(A) ==
    Mk(Rows(A), Cols(A),
       [i \in 1..Rows(A), j \in 1..Cols(A) |-> At(A, Rows(A) + 1 - i, Cols(A) + 1 - j)])

\* np.roll(A, (s1, s2), axis=(0, 1)): the sample at index k moves to (k + s) mod n
Roll(A, s1, s2) ==
    Mk(Rows(A), Cols(A),
       [i \in 1..Rows(A), j \in 1..Cols(A) |->
           At(A, ((i - 1 - s1) % Rows(A)) + 1, ((j - 1 - s2) % Cols(A)) + 1)])

\* A.T
Transpose(A) == Mk(Cols(A), Rows(A), [i \in 1..Cols(A), j \in 1..Rows(A) |-> At(A, j, i)])

\* the sum of the first n entries of s
RECURSIVE SumSeq(_, _)
SumSeq(s, n) == IF n = 0 THEN 0 ELSE Cadd(s[n], SumSeq(s, n - 1))

\* np.dot(A, B) for conformable A and B
MatMul(A, B) ==
    Mk(Rows(A), Cols(B),
       [i \in 1..Rows(A), j \in 1..Cols(B) |->
           SumSeq([k \in 1..Cols(A) |-> Cmul(At(A, i, k), At(B, k, j))], Cols(A))])

\* np.arange(lo, hi)
Arange(lo, hi) == [k \in 1..(hi - lo) |-> lo + k - 1]

(***************************************************************************)
(* How a call ends.                                                        *)
(***************************************************************************)
\* sqrt(sqrt_of) / (1j * over): the factor in front of a matrix DFT
NoScaling == [sqrt_of |-> 0, over |-> 0]

\* the focal-plane axes and the shapes of the transform matrices a call builds
NoGrids == [xi |-> <<>>, eta |-> <<>>, pre |-> <<0, 0>>, post |-> <<0, 0>>]

Result(how, value, scale, grid, warns, evs) ==
    [outcome |-> how, value |-> value, scaling |-> scale, grids |-> grid,
     warnings |-> warns, events |-> evs]

Return(value, scale, grid, warns, evs) ==
    Result("returned", value, scale, grid, warns, Append(evs, "return"))

Raise(exception, grid, warns, evs) ==
    Result(exception, NoArray, NoScaling, grid, warns, Append(evs, "raise"))

(***************************************************************************)
(* Module-level names of propcustom.py.  A name that is neither a global   *)
(* of the module nor a builtin raises NameError where it is read.          *)
(***************************************************************************)
ModuleGlobals ==
    {"np", "logging", "utils", "log", "_VALID_CENTERING", "_CENTERING_ERR",
     "propcustom_2FT", "propcustom_PTP", "propcustom_mft_FtoP", "propcustom_mft_PtoF"}

Resolves(name) == name \in ModuleGlobals

_VALID_CENTERING == {"pixel", "interpixel"}

(***************************************************************************)
(* propcustom_2FT                                                          *)
(***************************************************************************)
propcustom_2FT(E_in, centering) ==
    IF ~Resolves("_valid_centering")
    THEN Raise("NameError", NoGrids, <<>>, <<"centering_check">>)
    ELSE IF centering \notin _VALID_CENTERING
    THEN Raise("ValueError_centering", NoGrids, <<>>, <<"centering_check">>)
    ELSE LET E_rev == Scale(Cpow(Cdiv(1, J), 2), Flip(E_in))
             E_fin == IF centering = "pixel" THEN Roll(E_in, 1, 1) ELSE E_rev
         IN  Return(E_fin, NoScaling, NoGrids, <<>>,
                    <<"centering_check", "reverse_scale", "pixel_check">>)

\* propcustom_2FT(propcustom_2FT(E_in, centering), centering): an exception of the
\* inner call propagates
propcustom_2FT_twice(E_in, centering) ==
    LET first == propcustom_2FT(E_in, centering)
    IN  IF first.outcome # "returned" THEN first
        ELSE LET second == propcustom_2FT(first.value, centering)
             IN  [second EXCEPT !.events = first.events \o second.events]

(***************************************************************************)
(* The Grid Provider, falco.utils, from its contract (spec section 6).     *)
(***************************************************************************)
\* create_axis(size, pitch, centering), in units of half a pitch unit: evenly
\* spaced; "pixel" has its zero at index size // 2 (0-based), "interpixel" is
\* offset by half a pitch so that no sample is zero
create_axis(size, pitch, centering) ==
    [k \in 1..size |->
        IF centering = "pixel" THEN 2 * (k - 1 - (size \div 2)) * pitch
        ELSE (2 * (k - 1 - (size \div 2)) + 1) * pitch]

\* radial_grid(axis) ** 2: the squared distance of (axis[i], axis[j]) from the origin
radial_grid_sq(axis) ==
    Mk(Len(axis), Len(axis),
       [i \in 1..Len(axis), j \in 1..Len(axis) |-> axis[i] * axis[i] + axis[j] * axis[j]])

(***************************************************************************)
(* np.fft                                                                  *)
(***************************************************************************)
\* np.fft.fftshift: roll every axis by n // 2
fftshift(A) == Roll(A, Rows(A) \div 2, Cols(A) \div 2)

\* fault: the inverse shift rolls the same way as the forward shift
ifftshift_as_fftshift(A) == Roll(A, Rows(A) \div 2, Cols(A) \div 2)

\* np.fft.ifftshift: roll every axis by -(n // 2)
ifftshift(A) == Roll(A, -(Rows(A) \div 2), -(Cols(A) \div 2))

\* the DFT along axis 0 and along axis 1, with exp(sign 2 pi i k n / size)
DftAxis0(A, sign) ==
    Mk(Rows(A), Cols(A),
       [k \in 1..Rows(A), j \in 1..Cols(A) |->
           SumSeq([n \in 1..Rows(A) |->
                      Cmul(At(A, n, j), Cis(sign * (k - 1) * (n - 1), Rows(A)))], Rows(A))])

DftAxis1(A, sign) ==
    Mk(Rows(A), Cols(A),
       [i \in 1..Rows(A), k \in 1..Cols(A) |->
           SumSeq([n \in 1..Cols(A) |->
                      Cmul(At(A, i, n), Cis(sign * (k - 1) * (n - 1), Cols(A)))], Cols(A))])

\* np.fft.fftn and np.fft.ifftn of a 2-D array
fftn(A) == DftAxis1(DftAxis0(A, -1), -1)
ifftn(A) == Scale(Cinv(Rows(A) * Cols(A)), DftAxis1(DftAxis0(A, 1), 1))

(***************************************************************************)
(* propcustom_PTP                                                          *)
(***************************************************************************)
\* floor(num / den) of the rational num / den, den > 0
Floor(num, den) == num \div den

\* fault: the critical count itself is taken as undersampled
Undersampled_inclusive(N, N_critical) == N <= N_critical

\* line 73: elif N < N_critical
Undersampled(N, N_critical) == N < N_critical

\* line 84: fftshift(exp(-1j * pi * lambda_ * dz * rho ** 2)), rho = radial_grid(fx),
\* fx = arange(-N // 2, N // 2) / full_width
PTP_kernel(N, full_width, lambda_, dz) ==
    LET fx_num == Arange((-N) \div 2, N \div 2)
        rho_sq == radial_grid_sq(fx_num)      \* over full_width ** 2
    IN  fftshift(Mk(N, N, [i \in 1..N, j \in 1..N |->
            Cis(-(lambda_ * dz * At(rho_sq, i, j)), 2 * full_width * full_width)]))

propcustom_PTP(E_in, full_width, lambda_, dz) ==
    LET M == Rows(E_in)
        N == Cols(E_in)
    IN  IF N = 0     \* dx = full_width / N
        THEN Raise("ZeroDivisionError", NoGrids, <<>>, <<"shape", "dx">>)
        ELSE
        LET \* dx = full_width / N, so lambda_ |dz| / dx ** 2 is
            \* lambda_ |dz| N ** 2 / full_width ** 2
            N_critical == Floor(lambda_ * Abs(dz) * N * N, full_width * full_width)
            warns == IF Undersampled(N, N_critical) THEN <<[need |-> N_critical, have |-> N]>>
                     ELSE <<>>
            evs == <<"shape", "dx", "N_critical", "square_check">>
                   \o (IF warns # <<>> THEN <<"warning">> ELSE <<>>)
            kernel == PTP_kernel(N, full_width, lambda_, dz)
            intermediate == fftn(fftshift(E_in))
        IN  IF M # N
            THEN Raise("ValueError_not_square", NoGrids, <<>>,
                       <<"shape", "dx", "N_critical", "square_check">>)
            ELSE Return(ifftshift(ifftn(Hadamard(kernel, intermediate))),
                        NoScaling, NoGrids, warns,
                        evs \o <<"fx", "rho", "kernel", "fft", "ifft">>)

(***************************************************************************)
(* Broadcasting and the matrix product.                                    *)
(***************************************************************************)
\* axis[:, None] and axis[None, :]
Column(axis) == Mk(Len(axis), 1, [i \in 1..Len(axis), j \in 1..1 |-> axis[i]])
Row(axis) == Mk(1, Len(axis), [i \in 1..1, j \in 1..Len(axis) |-> axis[j]])

\* the 1-D axis a column or row vector holds
Flat(A) == IF Rows(A) = 1 THEN A.data[1] ELSE [i \in 1..Rows(A) |-> A.data[i][1]]

\* the broadcast of two extents: equal, or one of them 1
Bdim(a, b) == IF a = b THEN a ELSE IF a = 1 THEN b ELSE IF b = 1 THEN a ELSE -1

\* A * B under numpy's broadcasting
BroadcastMul(A, B) ==
    Mk(Bdim(Rows(A), Rows(B)), Bdim(Cols(A), Cols(B)),
       [i \in 1..Bdim(Rows(A), Rows(B)), j \in 1..Bdim(Cols(A), Cols(B)) |->
           At(A, IF Rows(A) = 1 THEN 1 ELSE i, IF Cols(A) = 1 THEN 1 ELSE j)
           * At(B, IF Rows(B) = 1 THEN 1 ELSE i, IF Cols(B) = 1 THEN 1 ELSE j)])

\* exp(-2 pi 1j * prod / (lambda_ * fl)) elementwise; prod holds products of two
\* coordinates, each in half units, so the phase is -prod / (4 lambda_ fl) turns
MftPhasors(prod, lambda_, fl) ==
    Mk(Rows(prod), Cols(prod),
       [i \in 1..Rows(prod), j \in 1..Cols(prod) |-> Cis(-At(prod, i, j), 4 * lambda_ * fl)])

\* np.linalg.multi_dot([A, B, C]) is defined when the shapes are aligned
Aligned(A, B, C) == Cols(A) = Rows(B) /\ Cols(B) = Rows(C)
multi_dot(A, B, C) == MatMul(MatMul(A, B), C)

\* sqrt(dx * dy * dxi * deta) / (1j * lambda_ * fl)
MftScaling(dx, dy, dxi, deta, lambda_, fl) ==
    [sqrt_of |-> dx * dy * dxi * deta, over |-> lambda_ * fl]

(***************************************************************************)
(* propcustom_mft_FtoP                                                     *)
(***************************************************************************)
\* line 128
FtoP_xi(Nxi, dxi, deta, centering) == Column(create_axis(Nxi, dxi, centering))
\* line 129
FtoP_eta(Neta, dxi, deta, centering) == Row(create_axis(Neta, dxi, centering))

\* fault: pre built with the focal axis down the rows
FtoP_pre_transposed(y, eta, lambda_, fl) ==
    MftPhasors(BroadcastMul(Transpose(eta), Transpose(y)), lambda_, fl)

\* line 136
FtoP_pre(y, eta, lambda_, fl) == MftPhasors(BroadcastMul(y, eta), lambda_, fl)
\* line 137
FtoP_post(xi, x, lambda_, fl) == MftPhasors(BroadcastMul(xi, x), lambda_, fl)

propcustom_mft_FtoP(E_foc, fl, lambda_, dxi, deta, dx, N, centering) ==
    IF centering \notin _VALID_CENTERING
    THEN Raise("ValueError_centering", NoGrids, <<>>, <<"centering_check">>)
    ELSE
    LET Neta == Rows(E_foc)
        Nxi == Cols(E_foc)
        dy == dx
        xi == FtoP_xi(Nxi, dxi, deta, centering)
        eta == FtoP_eta(Neta, dxi, deta, centering)
        x == Row(create_axis(N, dx, centering))
        y == Transpose(x)
        pre == FtoP_pre(y, eta, lambda_, fl)
        post == FtoP_post(xi, x, lambda_, fl)
        grid == [xi |-> Flat(xi), eta |-> Flat(eta), pre |-> pre.shape, post |-> post.shape]
        evs == <<"centering_check", "shape", "axes", "matrices", "scaling", "multi_dot">>
    IN  IF ~Aligned(pre, E_foc, post)
        THEN Raise("ValueError_not_aligned", grid, <<>>, evs)
        ELSE Return(multi_dot(pre, E_foc, post),
                    MftScaling(dx, dy, dxi, deta, lambda_, fl), grid, <<>>, evs)

(***************************************************************************)
(* propcustom_mft_PtoF                                                     *)
(***************************************************************************)
\* line 192
PtoF_xi(Nxi, dxi, centering) == Row(create_axis(Nxi, dxi, centering))
\* line 193
PtoF_eta(Neta, deta, centering) == Column(create_axis(Neta, deta, centering))

\* fault: pre built from the horizontal axis xi
PtoF_pre_from_xi(xi, eta, y, lambda_, fl) ==
    MftPhasors(BroadcastMul(Transpose(xi), y), lambda_, fl)

\* line 196
PtoF_pre(xi, eta, y, lambda_, fl) == MftPhasors(BroadcastMul(eta, y), lambda_, fl)

\* line 197
PtoF_post(x, xi, eta, lambda_, fl) == MftPhasors(BroadcastMul(x, xi), lambda_, fl)

\* lines 187-202, after both checks have passed
PtoF_transform(E_pup, fl, lambda_, dx, dxi, Nxi, deta, Neta, centering) ==
    LET N == Cols(E_pup)
        dy == dx
        x == Column(create_axis(N, dx, centering))
        y == Transpose(x)
        xi == PtoF_xi(Nxi, dxi, centering)
        eta == PtoF_eta(Neta, deta, centering)
        pre == PtoF_pre(xi, eta, y, lambda_, fl)
        post == PtoF_post(x, xi, eta, lambda_, fl)
        grid == [xi |-> Flat(xi), eta |-> Flat(eta), pre |-> pre.shape, post |-> post.shape]
        evs == <<"centering_check", "shape", "square_check", "axes", "matrices",
                 "scaling", "multi_dot">>
    IN  IF ~Aligned(pre, E_pup, post)
        THEN Raise("ValueError_not_aligned", grid, <<>>, evs)
        ELSE Return(multi_dot(pre, E_pup, post),
                    MftScaling(dx, dy, dxi, deta, lambda_, fl), grid, <<>>, evs)

\* fault: the shape test placed before the centering test
mft_PtoF_square_first(E_pup, fl, lambda_, dx, dxi, Nxi, deta, Neta, centering) ==
    IF Rows(E_pup) # Cols(E_pup)
    THEN Raise("ValueError_not_square", NoGrids, <<>>, <<"shape", "square_check">>)
    ELSE IF centering \notin _VALID_CENTERING
    THEN Raise("ValueError_centering", NoGrids, <<>>,
               <<"shape", "square_check", "centering_check">>)
    ELSE PtoF_transform(E_pup, fl, lambda_, dx, dxi, Nxi, deta, Neta, centering)

propcustom_mft_PtoF(E_pup, fl, lambda_, dx, dxi, Nxi, deta, Neta, centering) ==
    IF centering \notin _VALID_CENTERING
    THEN Raise("ValueError_centering", NoGrids, <<>>, <<"centering_check">>)
    ELSE IF Rows(E_pup) # Cols(E_pup)
    THEN Raise("ValueError_not_square", NoGrids, <<>>,
               <<"centering_check", "shape", "square_check">>)
    ELSE PtoF_transform(E_pup, fl, lambda_, dx, dxi, Nxi, deta, Neta, centering)

(***************************************************************************)
(* The caller: the arguments it may pass.                                  *)
(***************************************************************************)
Centerings == {"pixel", "interpixel", "corner"}

\* three fields of each shape: a ramp of distinct real samples, a single unit
\* sample, and a field with real and imaginary parts
Ramp(R, C) == Mk(R, C, [i \in 1..R, j \in 1..C |-> (i - 1) * C + j])
Unit(R, C) == Mk(R, C, [i \in 1..R, j \in 1..C |-> IF i = 1 /\ j = 1 THEN 1 ELSE 0])
Mixed(R, C) == Mk(R, C, [i \in 1..R, j \in 1..C |-> Cadd(i, Cmul(J, j))])

Fields == { F : F \in UNION { {Ramp(R, C), Unit(R, C), Mixed(R, C)} :
                               R \in 1..MaxN, C \in 0..MaxN } }
Ramps == { Ramp(R, C) : R \in 1..MaxN, C \in 0..MaxN }

Widths == 1..MaxWidth
Wavelengths == 1..MaxLambda
Distances == (-MaxDz)..MaxDz
Pitches == 1..MaxPitch
Sizes == 1..MaxN
FocalSizes == 1..MaxFocal
FocalLengths == {1, 2}
PupilPitches == {1}

NoArgs ==
    [E |-> NoArray, centering |-> "", full_width |-> 0, lambda_ |-> 0, dz |-> 0,
     fl |-> 0, dx |-> 0, dxi |-> 0, deta |-> 0, N |-> 0, Nxi |-> 0, Neta |-> 0]

(***************************************************************************)
(* The state machine.                                                      *)
(***************************************************************************)
Init ==
    /\ phase = "idle"
    /\ op = "none"
    /\ args = NoArgs
    /\ outcome = "none"
    /\ E_out = NoArray
    /\ scaling = NoScaling
    /\ grids = NoGrids
    /\ warnings = <<>>
    /\ events = <<>>

\* the call ends with result r
Ends(name, a, r) ==
    /\ phase' = "done"
    /\ op' = name
    /\ args' = a
    /\ outcome' = r.outcome
    /\ E_out' = r.value
    /\ scaling' = r.scaling
    /\ grids' = r.grids
    /\ warnings' = r.warnings
    /\ events' = r.events

Call_2FT ==
    /\ phase = "idle"
    /\ \E E \in Fields, c \in Centerings :
          Ends("2FT", [NoArgs EXCEPT !.E = E, !.centering = c], propcustom_2FT(E, c))

Call_2FT_twice ==
    /\ phase = "idle"
    /\ \E E \in Fields, c \in Centerings :
          Ends("2FT_2FT", [NoArgs EXCEPT !.E = E, !.centering = c],
               propcustom_2FT_twice(E, c))

Call_PTP ==
    /\ phase = "idle"
    /\ \E E \in Fields, w \in Widths, l \in Wavelengths, d \in Distances :
          Ends("PTP", [NoArgs EXCEPT !.E = E, !.full_width = w, !.lambda_ = l, !.dz = d],
               propcustom_PTP(E, w, l, d))

Call_mft_FtoP ==
    /\ phase = "idle"
    /\ \E E \in Ramps, f \in FocalLengths, l \in Wavelengths, dxi \in Pitches,
          deta \in Pitches, dx \in PupilPitches, N \in Sizes, c \in Centerings :
          Ends("mft_FtoP",
               [NoArgs EXCEPT !.E = E, !.fl = f, !.lambda_ = l, !.dxi = dxi,
                              !.deta = deta, !.dx = dx, !.N = N, !.centering = c],
               propcustom_mft_FtoP(E, f, l, dxi, deta, dx, N, c))

Call_mft_PtoF ==
    /\ phase = "idle"
    /\ \E E \in Ramps, f \in FocalLengths, l \in Wavelengths, dx \in PupilPitches,
          dxi \in Pitches, Nxi \in FocalSizes, deta \in Pitches, Neta \in FocalSizes,
          c \in Centerings :
          Ends("mft_PtoF",
               [NoArgs EXCEPT !.E = E, !.fl = f, !.lambda_ = l, !.dx = dx, !.dxi = dxi,
                              !.Nxi = Nxi, !.deta = deta, !.Neta = Neta,
                              !.centering = c],
               propcustom_mft_PtoF(E, f, l, dx, dxi, Nxi, deta, Neta, c))

\* the caller has taken the outcome and is free to call again
Finish ==
    /\ phase = "done"
    /\ phase' = "idle"
    /\ op' = "none"
    /\ args' = NoArgs
    /\ outcome' = "none"
    /\ E_out' = NoArray
    /\ scaling' = NoScaling
    /\ grids' = NoGrids
    /\ warnings' = <<>>
    /\ events' = <<>>

Next ==
    \/ Call_2FT
    \/ Call_2FT_twice
    \/ Call_PTP
    \/ Call_mft_FtoP
    \/ Call_mft_PtoF
    \/ Finish

Spec == Init /\ [][Next]_vars

(***************************************************************************)
(* Properties.                                                             *)
(***************************************************************************)
Called(name) == phase = "done" /\ op = name
Square(A) == Rows(A) = Cols(A)
ValidCentering(c) == c = "pixel" \/ c = "interpixel"
Cneg(a) == (P - a) % P

\* C1: propcustom_2FT raises the invalid-centering ValueError exactly when centering
\* is neither pixel nor interpixel; with pixel or interpixel it raises nothing and
\* returns an array of the input's shape.
C1_2FT_ValueError_iff_invalid_centering ==
    Called("2FT") =>
        /\ (outcome = "ValueError_centering") <=> ~ValidCentering(args.centering)
        /\ ValidCentering(args.centering) =>
              (outcome = "returned" /\ E_out.shape = args.E.shape)

\* C2: under pixel centering propcustom_2FT returns the input reversed along both
\* axes, negated and rolled by one sample along each axis:
\* out[i][j] = -E_in[(R - i) mod R][(C - j) mod C] (0-based).
C2_2FT_pixel_is_negated_flip_rolled ==
    (Called("2FT") /\ args.centering = "pixel") =>
        /\ outcome = "returned"
        /\ E_out.shape = args.E.shape
        /\ \A i \in 1..Rows(args.E), j \in 1..Cols(args.E) :
              At(E_out, i, j) =
                  Cneg(At(args.E, ((Rows(args.E) - (i - 1)) % Rows(args.E)) + 1,
                                  ((Cols(args.E) - (j - 1)) % Cols(args.E)) + 1))

\* C3: propcustom_2FT applied twice with interpixel centering returns the original
\* field sample for sample.
C3_2FT_twice_interpixel_is_identity ==
    (Called("2FT_2FT") /\ args.centering = "interpixel") =>
        (outcome = "returned" /\ E_out = args.E)

\* C4: propcustom_PTP and propcustom_mft_PtoF, given a non-square array and otherwise
\* valid arguments, raise the not-square ValueError, and nothing but the checks runs
\* before it: no arithmetic on the other arguments, no warning, no other error.
C4_nonsquare_raises_before_any_computation ==
    (/\ (Called("PTP") \/ (Called("mft_PtoF") /\ ValidCentering(args.centering)))
     /\ ~Square(args.E)) =>
        /\ outcome = "ValueError_not_square"
        /\ warnings = <<>>
        /\ \A k \in 1..Len(events) :
              events[k] \in {"centering_check", "shape", "square_check", "raise"}

\* C5: propcustom_mft_FtoP and propcustom_mft_PtoF raise the invalid-centering
\* ValueError whenever centering is neither pixel nor interpixel, before any other
\* check or computation (also when the pupil field is not square), and never raise
\* it for a valid centering.
C5_mft_centering_checked_first ==
    (Called("mft_FtoP") \/ Called("mft_PtoF")) =>
        /\ ~ValidCentering(args.centering) =>
              (outcome = "ValueError_centering" /\ events = <<"centering_check", "raise">>)
        /\ ValidCentering(args.centering) => outcome # "ValueError_centering"

C5_witness ==
    /\ Called("mft_PtoF")
    /\ ~ValidCentering(args.centering)
    /\ ~Square(args.E)
    /\ outcome = "ValueError_centering"

\* C6: for a square N x N input propcustom_PTP warns exactly when
\* N < floor(lambda_ |dz| / pitch^2), pitch = full_width / N, that is when
\* (N + 1) full_width^2 <= lambda_ |dz| N^2; warned or not, the call returns an
\* N x N field.
C6_PTP_warns_iff_undersampled ==
    (Called("PTP") /\ Square(args.E)) =>
        /\ outcome = "returned"
        /\ E_out.shape = args.E.shape
        /\ Len(warnings) <= 1
        /\ (warnings # <<>>) <=>
              ((Cols(args.E) + 1) * args.full_width * args.full_width
                  <= args.lambda_ * Abs(args.dz) * Cols(args.E) * Cols(args.E))

C6_witness ==
    /\ Called("PTP")
    /\ Square(args.E)
    /\ args.dz < 0
    /\ warnings # <<>>
    /\ outcome = "returned"

\* C7 as stated: propcustom_mft_PtoF, given a square pupil field and a valid
\* centering, returns a field of Nxi rows and Neta columns.
C7_PtoF_returns_Nxi_rows_Neta_columns ==
    (Called("mft_PtoF") /\ Square(args.E) /\ ValidCentering(args.centering)) =>
        (outcome = "returned" /\ E_out.shape = <<args.Nxi, args.Neta>>)

\* C7 amended: propcustom_mft_PtoF, given a square pupil field and a valid
\* centering, returns a field of Neta rows and Nxi columns.
C7_PtoF_returns_Neta_rows_Nxi_columns ==
    (Called("mft_PtoF") /\ Square(args.E) /\ ValidCentering(args.centering)) =>
        (outcome = "returned" /\ E_out.shape = <<args.Neta, args.Nxi>>)

C7_witness ==
    /\ Called("mft_PtoF")
    /\ outcome = "returned"
    /\ args.Nxi # args.Neta
    /\ E_out.shape = <<args.Neta, args.Nxi>>

\* C8: propcustom_mft_FtoP, given a focal-plane field of Neta rows and Nxi columns,
\* a positive N and a valid centering, returns an N x N array; pre is N x Neta and
\* post is Nxi x N.
C8_FtoP_returns_N_by_N ==
    (Called("mft_FtoP") /\ ValidCentering(args.centering)) =>
        /\ outcome = "returned"
        /\ E_out.shape = <<args.N, args.N>>
        /\ grids.pre = <<args.N, Rows(args.E)>>
        /\ grids.post = <<Cols(args.E), args.N>>

C8_witness ==
    /\ Called("mft_FtoP")
    /\ outcome = "returned"
    /\ Rows(args.E) # Cols(args.E)
    /\ args.N # Rows(args.E)
    /\ args.N # Cols(args.E)
    /\ E_out.shape = <<args.N, args.N>>

\* C9: propcustom_mft_FtoP builds each focal-plane axis with its own step, as
\* propcustom_mft_PtoF does: xi has Nxi samples at pitch dxi, eta has Neta samples
\* at pitch deta.
C9_FtoP_axes_use_their_own_pitch ==
    (Called("mft_FtoP") /\ outcome = "returned") =>
        /\ grids.xi = Flat(PtoF_xi(Cols(args.E), args.dxi, args.centering))
        /\ grids.eta = Flat(PtoF_eta(Rows(args.E), args.deta, args.centering))

\* C10: in propcustom_PTP the shift after the inverse transform undoes the shift
\* before the forward transform, for every array size, even or odd; with dz = 0
\* the output equals the input sample for sample.
C10_PTP_shifts_cancel ==
    Called("PTP") =>
        /\ ifftshift(fftshift(args.E)) = args.E
        /\ (Square(args.E) /\ args.dz = 0) => (outcome = "returned" /\ E_out = args.E)

C10_witness ==
    /\ Called("PTP")
    /\ args.dz = 0
    /\ args.E = Ramp(3, 3)
    /\ E_out = Ramp(3, 3)

====
